---------------------------- MODULE Spec2Model ----------------------------
(***************************************************************************)
(* A model of package statmodel (src/statmodel/core.go): the Dataset       *)
(* constructors, the covariance estimator GetVcov, the lazily cached       *)
(* accessors of BaseResults, FittedValues and SummaryTable.String.         *)
(*                                                                         *)
(* Numbers.  A float64 is a pair <<n, d>>: the rational n/d in lowest      *)
(* terms with d > 0, or NaN = <<0,0>>, +Inf = <<1,0>>, -Inf = <<-1,0>>.    *)
(* Arithmetic on finite values is exact; math.Sqrt rounds down to two      *)
(* decimals and math.Erfc is tabulated (see FSqrt and normcdf).  Signed    *)
(* zeros are not distinguished.                                            *)
(*                                                                         *)
(* Slices.  A Go slice is a record [isNil, elems], so that a nil slice and *)
(* an empty one differ, as they do for the `== nil` tests of the code.     *)
(***************************************************************************)
EXTENDS Integers, Sequences, FiniteSets, TLC

VARIABLES
    stage,      \* which operation of the scenario comes next
    model,      \* the RegFitter: NumParams, NumObs, Xpos, Dataset, Hessians
    inParams,   \* the coefficient vector handed to NewBaseResults
    inLoglike,  \* the log-likelihood handed to NewBaseResults
    gv,         \* what GetVcov returned: [called, vcov, err, kind]
    rslt,       \* the BaseResults object
    ret,        \* the slice returned by the latest accessor call
    last,       \* the accessor called latest ("none" before any call)
    first,      \* per accessor: whether it was called, and what it returned first
    da,         \* the argument of FittedValues
    fv,         \* the outcome of FittedValues: [status, val]
    dsIn,       \* the arguments of NewDataset / FromColumns
    ds,         \* the outcome of the Dataset constructor: [status, ctor, val]
    tbl,        \* the SummaryTable
    fmtOut,     \* what each column's formatter returns
    out         \* the outcome of SummaryTable.String: [called, wx, lines]

vars == <<stage, model, inParams, inLoglike, gv, rslt, ret, last, first,
          da, fv, dsIn, ds, tbl, fmtOut, out>>

---------------------------------------------------------------------------
(* Bounds of the model. *)

MaxParams == 2
MaxCols == 2
MaxObs == 2

---------------------------------------------------------------------------
(* float64 *)

NaN == <<0, 0>>
PosInf == <<1, 0>>
NegInf == <<-1, 0>>

Abs(i) == IF i < 0 THEN -i ELSE i

Sign(i) == IF i < 0 THEN -1 ELSE IF i > 0 THEN 1 ELSE 0

Min(a, b) == IF a < b THEN a ELSE b

Max(a, b) == IF a > b THEN a ELSE b

RECURSIVE GCD(_, _)
GCD(a, b) == IF b = 0 THEN a ELSE GCD(b, a % b)

\* The rational n/d (d # 0) in lowest terms with a positive denominator.
Rat(n, d) ==
    LET g == GCD(Abs(n), Abs(d))
    IN  <<(Sign(d) * n) \div g, Abs(d) \div g>>

F(i) == <<i, 1>>

IsNaN(x) == x = NaN
IsInf(x) == x[2] = 0 /\ x[1] # 0
IsFinite(x) == x[2] # 0

FNeg(x) == <<-x[1], x[2]>>

FAbs(x) == <<Abs(x[1]), x[2]>>

\* IEEE 754 multiplication.
FMul(x, y) ==
    IF IsNaN(x) \/ IsNaN(y) THEN NaN
    ELSE IF IsInf(x) \/ IsInf(y)
         THEN (IF x[1] = 0 \/ y[1] = 0 THEN NaN ELSE <<Sign(x[1]) * Sign(y[1]), 0>>)
         ELSE Rat(x[1] * y[1], x[2] * y[2])

\* IEEE 754 addition.
FAdd(x, y) ==
    IF IsNaN(x) \/ IsNaN(y) THEN NaN
    ELSE IF IsInf(x) /\ IsInf(y) THEN (IF x = y THEN x ELSE NaN)
    ELSE IF IsInf(x) THEN x
    ELSE IF IsInf(y) THEN y
    ELSE Rat(x[1] * y[2] + y[1] * x[2], x[2] * y[2])

\* IEEE 754 division: x/0 is an infinity of the sign of x, 0/0 and Inf/Inf are NaN.
FDiv(x, y) ==
    IF IsNaN(x) \/ IsNaN(y) THEN NaN
    ELSE IF IsInf(x)
         THEN (IF IsInf(y) THEN NaN
               ELSE <<Sign(x[1]) * (IF y[1] < 0 THEN -1 ELSE 1), 0>>)
    ELSE IF IsInf(y) THEN F(0)
    ELSE IF y[1] = 0
         THEN (IF x[1] = 0 THEN NaN ELSE <<Sign(x[1]), 0>>)
         ELSE Rat(x[1] * y[2], x[2] * y[1])

\* The largest k in lo..hi with k*k <= x (lo*lo <= x < (hi+1)*(hi+1)).
RECURSIVE ISqrtIn(_, _, _)
ISqrtIn(x, lo, hi) ==
    IF lo >= hi THEN lo
    ELSE LET mid == (lo + hi + 1) \div 2
         IN  IF mid * mid <= x THEN ISqrtIn(x, mid, hi) ELSE ISqrtIn(x, lo, mid - 1)

ISqrt(x) == ISqrtIn(x, 0, 46340)

\* math.Sqrt: NaN for a negative argument, otherwise the root rounded down to a
\* multiple of 1/100 (exact on the squares of such multiples).
FSqrt(x) ==
    IF IsNaN(x) \/ x[1] < 0 THEN NaN
    ELSE IF IsInf(x) THEN PosInf
    ELSE Rat(ISqrt((x[1] * 10000) \div x[2]), 100)

\* The standard normal distribution function at a point -x <= 0, in millionths,
\* tabulated at the midpoints of the intervals [k/2, (k+1)/2) that x falls in.
LowerTail(k) ==
    CASE k = 0 -> 401294
      [] k = 1 -> 226627
      [] k = 2 -> 105650
      [] k = 3 -> 40059
      [] k = 4 -> 12224
      [] k = 5 -> 2980
      [] k = 6 -> 577
      [] k = 7 -> 88
      [] OTHER -> 32

\* normcdf(x) = 0.5 * math.Erfc(-x / math.Sqrt(2)): 1/2 at 0, the table elsewhere.
normcdf(x) ==
    IF IsNaN(x) THEN NaN
    ELSE IF x = PosInf THEN F(1)
    ELSE IF x = NegInf THEN F(0)
    ELSE IF x[1] = 0 THEN Rat(1, 2)
    ELSE LET k == (2 * Abs(x[1])) \div x[2]
             t == LowerTail(k)
         IN  IF x[1] < 0 THEN Rat(t, 1000000) ELSE Rat(1000000 - t, 1000000)

---------------------------------------------------------------------------
(* Slices *)

NilSlice == [isNil |-> TRUE, elems |-> <<>>]

Slice(s) == [isNil |-> FALSE, elems |-> s]

\* make([]float64, n)
Make(n) == Slice([i \in 1..n |-> F(0)])

---------------------------------------------------------------------------
(* Square matrices, row-major, as gonum's mat.Dense holds them *)

At(m, n, i, j) == m[(i - 1) * n + j]

\* m without row r and column c.
Minor(m, n, r, c) ==
    [k \in 1..((n - 1) * (n - 1)) |->
        LET i == ((k - 1) \div (n - 1)) + 1
            j == ((k - 1) % (n - 1)) + 1
        IN  At(m, n, IF i < r THEN i ELSE i + 1, IF j < c THEN j ELSE j + 1)]

RECURSIVE Det(_, _)
RECURSIVE DetRow(_, _, _)

\* The first-row Laplace expansion, columns j..n.
DetRow(m, n, j) ==
    IF j > n THEN F(0)
    ELSE FAdd(FMul(FMul(F(IF j % 2 = 1 THEN 1 ELSE -1), At(m, n, 1, j)),
                   Det(Minor(m, n, 1, j), n - 1)),
              DetRow(m, n, j + 1))

Det(m, n) == IF n = 1 THEN m[1] ELSE DetRow(m, n, 1)

Cofactor(m, n, i, j) ==
    FMul(F(IF (i + j) % 2 = 0 THEN 1 ELSE -1),
         IF n = 1 THEN F(1) ELSE Det(Minor(m, n, i, j), n - 1))

\* (*mat.Dense).Inverse: an error and no usable result for a singular matrix,
\* otherwise the inverse (here exact: the adjugate over the determinant).
Inverse(m, n) ==
    LET d == Det(m, n)
    IN  IF d = F(0)
        THEN [err |-> TRUE, val |-> [k \in 1..(n * n) |-> NaN]]
        ELSE [err |-> FALSE,
              val |-> [k \in 1..(n * n) |->
                          LET i == ((k - 1) \div n) + 1
                              j == ((k - 1) % n) + 1
                          IN  FDiv(Cofactor(m, n, j, i), d)]]

\* (*mat.Dense).Scale
Scale(f, m) == [k \in 1..Len(m) |-> FMul(f, m[k])]

---------------------------------------------------------------------------
(* RegFitter and GetVcov *)

ObsHess == 0
ExpHess == 1

\* RegFitter.Hessian: overwrites the caller's buffer with the Hessian of the
\* requested kind at the given parameter.
Hessian(mdl, params, kind, buf) ==
    [k \in 1..Len(buf) |-> IF kind = ExpHess THEN mdl.exphess[k] ELSE mdl.obshess[k]]

NumParams(mdl) == mdl.NumParams

\* GetVcov returning the buffer of the inverse whatever Inverse reported.
GetVcovIgnoringError(mdl, params) ==
    LET nvar == NumParams(mdl)
        n2 == nvar * nvar
        hess == Hessian(mdl, params, ExpHess, Make(n2).elems)
        inv == Inverse(hess, nvar)
    IN  [vcov |-> Slice(Scale(F(-1), inv.val)), err |-> inv.err]

\* GetVcov asking the model for its observed Hessian.
GetVcovObserved(mdl, params) ==
    LET nvar == NumParams(mdl)
        n2 == nvar * nvar
        hess == Hessian(mdl, params, ObsHess, Make(n2).elems)
        inv == Inverse(hess, nvar)
    IN  IF inv.err
        THEN [vcov |-> NilSlice, err |-> TRUE]
        ELSE [vcov |-> Slice(Scale(F(-1), inv.val)), err |-> FALSE]

GetVcov(mdl, params) ==
    LET nvar == NumParams(mdl)
        n2 == nvar * nvar
        hess == Hessian(mdl, params, ExpHess, Make(n2).elems)
        inv == Inverse(hess, nvar)
    IN  IF inv.err
        THEN [vcov |-> NilSlice, err |-> TRUE]
        ELSE [vcov |-> Slice(Scale(F(-1), inv.val)), err |-> FALSE]

---------------------------------------------------------------------------
(* BaseResults *)

NewBaseResults(mdl, loglike, params, xnames, vcov) ==
    [model |-> mdl, loglike |-> loglike, params |-> params, xnames |-> xnames,
     vcov |-> vcov, stderr |-> NilSlice, zscores |-> NilSlice, pvalues |-> NilSlice]

Params(r) == r.params

VCov(r) == r.vcov

LogLike(r) == r.loglike

\* StdErr reading the first column of the covariance instead of its diagonal.
StdErrFirstColumn(r) ==
    IF r.vcov.isNil THEN [rslt |-> r, ret |-> NilSlice]
    ELSE IF ~r.stderr.isNil THEN [rslt |-> r, ret |-> r.stderr]
    ELSE LET p == NumParams(r.model)
             se == [i \in 1..p |-> FSqrt(r.vcov.elems[(i - 1) * p + 1])]
         IN  [rslt |-> [r EXCEPT !.stderr = Slice(se)], ret |-> Slice(se)]

\* Each accessor yields the object as the call leaves it, and the slice returned.
StdErr(r) ==
    IF r.vcov.isNil THEN [rslt |-> r, ret |-> NilSlice]
    ELSE IF ~r.stderr.isNil THEN [rslt |-> r, ret |-> r.stderr]
    ELSE LET p == NumParams(r.model)
             se == [i \in 1..p |-> FSqrt(r.vcov.elems[(i - 1) * p + (i - 1) + 1])]
         IN  [rslt |-> [r EXCEPT !.stderr = Slice(se)], ret |-> Slice(se)]

\* ZScores without its test for an absent covariance: the cache is allocated
\* and the loop ranges over the absent standard errors.
ZScoresUnguarded(r) ==
    IF ~r.zscores.isNil THEN [rslt |-> r, ret |-> r.zscores]
    ELSE LET p == NumParams(r.model)
             s == StdErr(r)
             std == s.ret.elems
             zs == [i \in 1..p |->
                       IF i <= Len(std) THEN FDiv(r.params[i], std[i]) ELSE F(0)]
         IN  [rslt |-> [s.rslt EXCEPT !.zscores = Slice(zs)], ret |-> Slice(zs)]

ZScores(r) ==
    IF r.vcov.isNil THEN [rslt |-> r, ret |-> NilSlice]
    ELSE IF ~r.zscores.isNil THEN [rslt |-> r, ret |-> r.zscores]
    ELSE LET p == NumParams(r.model)
             s == StdErr(r)
             std == s.ret.elems
             zs == [i \in 1..p |->
                       IF i <= Len(std) THEN FDiv(r.params[i], std[i]) ELSE F(0)]
         IN  [rslt |-> [s.rslt EXCEPT !.zscores = Slice(zs)], ret |-> Slice(zs)]

\* PValues without its test for a populated cache: every call computes anew.
PValuesRecomputed(r) ==
    IF r.vcov.isNil THEN [rslt |-> r, ret |-> NilSlice]
    ELSE LET p == NumParams(r.model)
             z == r.zscores.elems
             pv == [i \in 1..p |->
                       IF i <= Len(z)
                       THEN FMul(F(2), normcdf(FNeg(FAbs(z[i]))))
                       ELSE F(0)]
         IN  [rslt |-> [r EXCEPT !.pvalues = Slice(pv)], ret |-> Slice(pv)]

\* The loop ranges over rslt.zscores as it is when PValues is called: over
\* nothing when the z-scores have not been computed yet.
PValues(r) ==
    IF r.vcov.isNil THEN [rslt |-> r, ret |-> NilSlice]
    ELSE IF ~r.pvalues.isNil THEN [rslt |-> r, ret |-> r.pvalues]
    ELSE LET p == NumParams(r.model)
             z == r.zscores.elems
             pv == [i \in 1..p |->
                       IF i <= Len(z)
                       THEN FMul(F(2), normcdf(FNeg(FAbs(z[i]))))
                       ELSE F(0)]
         IN  [rslt |-> [r EXCEPT !.pvalues = Slice(pv)], ret |-> Slice(pv)]

\* FittedValues without its test of the number of columns.
FittedValuesUnchecked(r, d) ==
    LET xpos == r.model.Xpos
        cols == IF d.isNil THEN r.model.Dataset ELSE d.elems
        n == r.model.NumObs
        Term(k, i) ==
            IF i <= Len(cols[xpos[k] + 1])
            THEN FMul(r.params[k], cols[xpos[k] + 1][i]) ELSE F(0)
        RECURSIVE Acc(_, _)
        Acc(k, i) == IF k = 0 THEN F(0) ELSE FAdd(Acc(k - 1, i), Term(k, i))
    IN  IF \E k \in 1..Len(xpos) :
              \/ xpos[k] + 1 > Len(cols)
              \/ k > Len(r.params)
              \/ Len(cols[xpos[k] + 1]) > n
        THEN [status |-> "panic: index out of range", val |-> <<>>]
        ELSE [status |-> "ok", val |-> [i \in 1..n |-> Acc(Len(xpos), i)]]

\* FittedValues(da): a nil da stands for the training data; a da with another
\* number of columns panics; then fv[i] += params[k] * da[xpos[k]][i] over the
\* rows of each predictor column (an index past the end of fv, da or params is
\* a run-time panic).  Xpos holds Go's zero-based positions.
FittedValues(r, d) ==
    LET xpos == r.model.Xpos
        cols == IF d.isNil THEN r.model.Dataset ELSE d.elems
        n == r.model.NumObs
        Term(k, i) ==
            IF i <= Len(cols[xpos[k] + 1])
            THEN FMul(r.params[k], cols[xpos[k] + 1][i]) ELSE F(0)
        RECURSIVE Acc(_, _)
        Acc(k, i) == IF k = 0 THEN F(0) ELSE FAdd(Acc(k - 1, i), Term(k, i))
    IN  IF Len(cols) # Len(r.model.Dataset)
        THEN [status |-> "panic: incorrect number of columns", val |-> <<>>]
        ELSE IF \E k \in 1..Len(xpos) :
                   \/ xpos[k] + 1 > Len(cols)
                   \/ k > Len(r.params)
                   \/ Len(cols[xpos[k] + 1]) > n
        THEN [status |-> "panic: index out of range", val |-> <<>>]
        ELSE [status |-> "ok", val |-> [i \in 1..n |-> Acc(Len(xpos), i)]]

---------------------------------------------------------------------------
(* Dataset *)

\* The basicData behind a Dataset.
BasicData(data, varnames, yname, xnames) ==
    [data |-> data, varnames |-> varnames, yname |-> yname, xnames |-> xnames]

NewDataset(data, varnames, yname, xnames) ==
    IF Len(data) # Len(varnames)
    THEN [status |-> "panic", ctor |-> "NewDataset",
          val |-> BasicData(<<>>, <<>>, "", <<>>)]
    ELSE [status |-> "ok", ctor |-> "NewDataset",
          val |-> BasicData(data, varnames, yname, xnames)]

\* c is a Columnser: c.Names and c.Data stand for its two methods.
FromColumns(c, yname, xnames) ==
    LET na == c.Names
        cd == c.Data
    IN  [status |-> "ok", ctor |-> "FromColumns",
         val |-> BasicData(cd, na, yname, xnames)]

---------------------------------------------------------------------------
(* SummaryTable *)

RECURSIVE Repeat(_, _)
\* strings.Repeat
Repeat(c, n) == IF n <= 0 THEN "" ELSE c \o Repeat(c, n - 1)

\* fmt.Sprintf("%<w>s", x): right-justified, never truncated.
PadLeft(x, w) == Repeat(" ", w - Len(x)) \o x

\* fmt.Sprintf("%-<w>s", x): left-justified, never truncated.
PadRight(x, w) == x \o Repeat(" ", w - Len(x))

RECURSIVE MaxLen(_, _)
\* The largest of w and the lengths of the strings of xs.
MaxLen(xs, w) ==
    IF xs = <<>> THEN w ELSE MaxLen(Tail(xs), Max(w, Len(Head(xs))))

RECURSIVE SumSeq(_)
SumSeq(ws) == IF ws = <<>> THEN 0 ELSE Head(ws) + SumSeq(Tail(ws))

RECURSIVE Concat(_)
Concat(xs) == IF xs = <<>> THEN "" ELSE Head(xs) \o Concat(Tail(xs))

\* cleanTop: every entry of Top padded to the width of the widest.
cleanTop(t) ==
    LET w == MaxLen(t.Top, Len(t.Top[1]))
    IN  [t EXCEPT !.Top = [i \in 1..Len(t.Top) |-> PadRight(t.Top[i], w)]]

\* line: the character repeated over the width of the table.
line(t, c) == Repeat(c, t.tw)

\* top: the entries of Top two to a line, each column of entries left-justified
\* to its widest entry, the two separated by gap spaces.
top(t, gap) ==
    LET n == Len(t.Top)
        w0 == MaxLen([i \in 1..((n + 1) \div 2) |-> t.Top[2 * i - 1]], 0)
        w1 == MaxLen([i \in 1..(n \div 2) |-> t.Top[2 * i]], 0)
    IN  [i \in 1..((n + 1) \div 2) |->
            PadRight(t.Top[2 * i - 1], w0) \o Repeat(" ", gap)
              \o (IF 2 * i <= n THEN PadRight(t.Top[2 * i], w1) ELSE "")]

\* String: tab[j] is what the formatter of column j returned; the width of
\* column j is the longer of its name and of tab[j][0]; the lines of the text.
String(t0, tab) ==
    LET t1 == cleanTop(t0)
        wx == [j \in 1..Len(tab) |->
                  IF Len(tab[j][1]) > Len(t1.ColNames[j])
                  THEN Len(tab[j][1]) ELSE Len(t1.ColNames[j])]
        gap == 10
        tw0 == SumSeq(wx)
        tw1 == IF tw0 < Len(t1.Title) THEN Len(t1.Title) ELSE tw0
        tw2 == IF tw1 < gap + 2 * Len(t1.Top[1]) THEN gap + 2 * Len(t1.Top[1]) ELSE tw1
        t == [t1 EXCEPT !.tw = tw2]
        kr == Max((t.tw - Len(t.Title)) \div 2, 0)
        header == Concat([j \in 1..Len(t.ColNames) |-> PadLeft(t.ColNames[j], wx[j])])
        rows == [i \in 1..Len(tab[1]) |->
                    Concat([j \in 1..Len(tab) |-> PadLeft(tab[j][i], wx[j])])]
    IN  [tbl |-> t, wx |-> wx,
         lines |-> <<Repeat(" ", kr) \o t.Title, line(t, "=")>> \o top(t, gap)
                     \o <<line(t, "-"), header, line(t, "-")>> \o rows
                     \o <<line(t, "-")>> \o t.Msg]

---------------------------------------------------------------------------
(* Inputs *)

\* The symmetric n x n matrices, row-major, with diagonal entries in diag and
\* the others in off.
Symmetric(n, diag, off) ==
    LET upper == {ij \in (1..n) \X (1..n) : ij[1] <= ij[2]}
    IN  {[k \in 1..(n * n) |->
            LET i == ((k - 1) \div n) + 1
                j == ((k - 1) % n) + 1
            IN  u[<<Min(i, j), Max(i, j)>>]] :
         u \in {v \in [upper -> diag \cup off] :
                   \A ij \in upper :
                      v[ij] \in (IF ij[1] = ij[2] THEN diag ELSE off)}}

XName(i) == CASE i = 1 -> "x1" [] i = 2 -> "x2" [] i = 3 -> "x3" [] OTHER -> "x"

XNames(p) == [i \in 1..p |-> XName(i)]

\* Coefficients, covariance entries and Hessian entries the scenarios draw from.
ParamVals == {F(-2), F(0)}
VcovVals == {F(-1), F(0), F(4)}
HessDiagVals == {F(-86), F(-7), F(0)}
HessOffVals == {F(-10), F(0)}

\* A RegFitter of which only the parameter count and the Hessians matter.
Fitter(p, eh, oh) ==
    [NumParams |-> p, NumObs |-> 0, Xpos |-> <<>>, Dataset |-> <<>>,
     exphess |-> eh, obshess |-> oh]

Accessors == {"StdErr", "ZScores", "PValues"}

NoCalls == [a \in Accessors |-> [called |-> FALSE, val |-> NilSlice]]

NoVcov == [called |-> FALSE, vcov |-> NilSlice, err |-> FALSE]

NoResults == NewBaseResults(Fitter(0, <<>>, <<>>), F(0), <<>>, <<>>, NilSlice)

NoFitted == [status |-> "none", val |-> <<>>]

NoDatasetIn == [data |-> <<>>, varnames |-> <<>>, yname |-> "", xnames |-> <<>>]

NoDataset == [status |-> "none", ctor |-> "", val |-> NoDatasetIn]

NoTable == [Title |-> "", ColNames |-> <<>>, Top |-> <<>>, Msg |-> <<>>, tw |-> 0]

NoOut == [called |-> FALSE, wx |-> <<>>, lines |-> <<>>]

IdleResults ==
    /\ gv = NoVcov
    /\ ret = NilSlice /\ last = "none" /\ first = NoCalls

IdleFitted == da = NilSlice /\ fv = NoFitted

IdleDataset == dsIn = NoDatasetIn /\ ds = NoDataset

IdleTable == tbl = NoTable /\ fmtOut = <<>> /\ out = NoOut

---------------------------------------------------------------------------
(* The accessors of a BaseResults, called in any order, any number of times *)

Returned(name, o) ==
    /\ rslt' = o.rslt
    /\ ret' = o.ret
    /\ last' = name
    /\ first' = IF first[name].called THEN first
                ELSE [first EXCEPT ![name] = [called |-> TRUE, val |-> o.ret]]
    /\ UNCHANGED <<stage, model, inParams, inLoglike, gv, da, fv, dsIn, ds,
                   tbl, fmtOut, out>>

StdErrCall == stage = "results" /\ Returned("StdErr", StdErr(rslt))

ZScoresCall == stage = "results" /\ Returned("ZScores", ZScores(rslt))

PValuesCall == stage = "results" /\ Returned("PValues", PValues(rslt))

\* A BaseResults built from any coefficient vector and any symmetric covariance
\* of matching size, or from an absent covariance.
InitResults ==
    /\ stage = "results"
    /\ inLoglike = F(-9)
    /\ \E p \in 1..MaxParams :
          /\ model = Fitter(p, [k \in 1..(p * p) |-> F(0)], [k \in 1..(p * p) |-> F(0)])
          /\ inParams \in [1..p -> ParamVals]
          /\ \E v \in {NilSlice} \cup {Slice(m) : m \in Symmetric(p, VcovVals, VcovVals)} :
                rslt = NewBaseResults(model, inLoglike, inParams, XNames(p), v)
    /\ IdleResults /\ IdleFitted /\ IdleDataset /\ IdleTable

NextResults == StdErrCall \/ ZScoresCall \/ PValuesCall

SpecResults == InitResults /\ [][NextResults]_vars

---------------------------------------------------------------------------
(* GetVcov on a fitted model, then a BaseResults built from what it returned *)

GetVcovCall ==
    /\ stage = "model"
    /\ LET o == GetVcov(model, inParams)
       IN  gv' = [called |-> TRUE, vcov |-> o.vcov, err |-> o.err]
    /\ stage' = "vcov"
    /\ UNCHANGED <<model, inParams, inLoglike, rslt, ret, last, first, da, fv,
                   dsIn, ds, tbl, fmtOut, out>>

NewBaseResultsCall ==
    /\ stage = "vcov"
    /\ rslt' = NewBaseResults(model, inLoglike, inParams,
                              XNames(NumParams(model)), gv.vcov)
    /\ stage' = "results"
    /\ UNCHANGED <<model, inParams, inLoglike, gv, ret, last, first, da, fv,
                   dsIn, ds, tbl, fmtOut, out>>

\* The observed Hessian equals the expected one (canonical link) or differs.
ObsHessians(eh) == {eh, [k \in 1..Len(eh) |-> FAdd(FMul(F(2), eh[k]), F(-1))]}

InitVcov ==
    /\ stage = "model"
    /\ \E p \in 1..MaxParams :
          /\ \E eh \in Symmetric(p, HessDiagVals, HessOffVals) : \E oh \in ObsHessians(eh) :
                model = Fitter(p, eh, oh)
          /\ inParams \in {[i \in 1..p |-> c] : c \in ParamVals}
    /\ inLoglike = F(-9)
    /\ rslt = NoResults
    /\ IdleResults /\ IdleFitted /\ IdleDataset /\ IdleTable

NextVcov == GetVcovCall \/ NewBaseResultsCall \/ StdErrCall \/ ZScoresCall \/ PValuesCall

SpecVcov == InitVcov /\ [][NextVcov]_vars

---------------------------------------------------------------------------
(* Properties of the accessors *)

\* What the documentation of the accessors promises, computed from the
\* constructor's arguments alone.
Diagonal(r, i) == VCov(r).elems[(i - 1) * NumParams(r.model) + i]

SqrtDiagonal(r) == [i \in 1..NumParams(r.model) |-> FSqrt(Diagonal(r, i))]

ParamsOverSqrtDiagonal(r) ==
    [i \in 1..NumParams(r.model) |-> FDiv(Params(r)[i], SqrtDiagonal(r)[i])]

TwoSidedTail(r) ==
    [i \in 1..NumParams(r.model) |->
        FMul(F(2), normcdf(FNeg(FAbs(ParamsOverSqrtDiagonal(r)[i]))))]

HasVcov == stage = "results" /\ ~rslt.vcov.isNil

NoVcovGiven == stage = "results" /\ rslt.vcov.isNil

NonNegativeDiagonal == \A i \in 1..NumParams(rslt.model) : Diagonal(rslt, i)[1] >= 0

NegativeDiagonalEntry == \E i \in 1..NumParams(rslt.model) : Diagonal(rslt, i)[1] < 0

HasNaN(sl) == \E i \in 1..Len(sl.elems) : IsNaN(sl.elems[i])

\* C1: with a covariance present, PValues() returns 2 * normal_tail(-|params[i] /
\* sqrt(vcov[i*p+i])|) for every i (1 where the z-score is 0) whatever accessors
\* were called before it, PValues() being the very first call included.
C1_PValuesInAnyOrder ==
    (HasVcov /\ last = "PValues") =>
        /\ ret = Slice(TwoSidedTail(rslt))
        /\ \A i \in 1..NumParams(rslt.model) :
              ParamsOverSqrtDiagonal(rslt)[i] = F(0) => ret.elems[i] = F(1)

\* C2: with an absent covariance every accessor returns absent, in any sequence
\* of calls, and none of the three caches is ever populated.
C2_AbsentVcovAbsentStatistics ==
    NoVcovGiven =>
        /\ rslt.stderr.isNil /\ rslt.zscores.isNil /\ rslt.pvalues.isNil
        /\ last # "none" => ret = NilSlice
        /\ \A a \in Accessors : first[a].called => first[a].val = NilSlice

C2_Witness ==
    /\ NoVcovGiven
    /\ \A a \in Accessors : first[a].called
    /\ last = "PValues"

\* C3: a populated cache is never recomputed or overwritten by a later accessor
\* call, and a repeated call of an accessor returns what its first call returned.
C3_CachesComputedOnce ==
    [][/\ ~rslt.stderr.isNil => rslt'.stderr = rslt.stderr
       /\ ~rslt.zscores.isNil => rslt'.zscores = rslt.zscores
       /\ ~rslt.pvalues.isNil => rslt'.pvalues = rslt.pvalues
       /\ \A a \in Accessors :
             (stage = "results" /\ first[a].called /\ last' = a) => ret' = first[a].val
      ]_vars

\* PValues() was called before ZScores() and again after it: the second call
\* returned the vector cached by the first, not one derived from the z-scores.
C3_Witness ==
    /\ HasVcov
    /\ last = "PValues"
    /\ ~rslt.zscores.isNil /\ ~rslt.stderr.isNil
    /\ ret = first["PValues"].val
    /\ ret # Slice(TwoSidedTail(rslt))

\* C4: with a covariance of non-negative diagonal, StdErr()[i] = sqrt(vcov[i*p+i])
\* and ZScores()[i] = params[i] / StdErr()[i], also when ZScores() is called
\* before StdErr() and fills the standard-error cache itself.
C4_StdErrAndZScores ==
    (HasVcov /\ NonNegativeDiagonal) =>
        /\ last = "StdErr" => ret = Slice(SqrtDiagonal(rslt))
        /\ last = "ZScores" =>
              /\ ret = Slice(ParamsOverSqrtDiagonal(rslt))
              /\ rslt.stderr = Slice(SqrtDiagonal(rslt))
        /\ ~rslt.stderr.isNil => rslt.stderr = Slice(SqrtDiagonal(rslt))
        /\ ~rslt.zscores.isNil => rslt.zscores = Slice(ParamsOverSqrtDiagonal(rslt))

\* ZScores() is called first on two parameters whose variances differ from
\* their covariance and from each other.
C4_Witness ==
    /\ HasVcov /\ NonNegativeDiagonal
    /\ NumParams(rslt.model) = 2
    /\ last = "ZScores" /\ ~first["StdErr"].called
    /\ rslt.vcov.elems = <<F(4), F(-1), F(-1), F(0)>>
    /\ Params(rslt) = <<F(-2), F(-2)>>
    /\ ret.elems = <<F(-1), NegInf>>

\* C8: with a negative diagonal entry in the covariance, StdErr() returns absent
\* and no NaN reaches the vectors returned or cached by ZScores() and PValues().
C8_NegativeDiagonalIsAbsent ==
    (HasVcov /\ NegativeDiagonalEntry) =>
        /\ last = "StdErr" => ret = NilSlice
        /\ ~HasNaN(ret)
        /\ ~HasNaN(rslt.stderr) /\ ~HasNaN(rslt.zscores) /\ ~HasNaN(rslt.pvalues)

---------------------------------------------------------------------------
(* Properties of GetVcov *)

AllZero(m) == \A k \in 1..Len(m) : m[k] = F(0)

Singular(mdl) == Det(mdl.exphess, NumParams(mdl)) = F(0)

\* x * d as an integer, for a finite x whose denominator divides d.
TimesInt(x, d) == x[1] * (d \div x[2])

\* c * h = -I for the n x n matrices c (rational) and h (integer) and d = det h:
\* every entry of c has a denominator dividing d, and (d c) h = -d I.
ProductIsNegativeIdentity(c, h, n) ==
    LET d == Det(h, n)[1]
        RECURSIVE Dot(_, _, _)
        Dot(i, j, k) ==
            IF k > n THEN 0
            ELSE TimesInt(At(c, n, i, k), d) * At(h, n, k, j)[1] + Dot(i, j, k + 1)
    IN  /\ \A k \in 1..(n * n) : IsFinite(c[k]) /\ d % c[k][2] = 0
        /\ \A i, j \in 1..n : Dot(i, j, 1) = (IF i = j THEN -d ELSE 0)

\* The expected Hessian of the test case "Poisson unweighted 1".
PoissonExpHess == <<F(-7), F(-10), F(-10), F(-86)>>

\* C5: GetVcov returns either a covariance of NumParams()^2 entries and no
\* error, or no covariance and an error; a singular expected Hessian (all zeros,
\* say) gives the error and no matrix, and a BaseResults built from that absent
\* covariance reports absent from StdErr(), ZScores() and PValues() while
\* Params() and LogLike() return what the constructor was given.
C5_VcovOrNotInvertible ==
    gv.called =>
        /\ gv.err <=> gv.vcov.isNil
        /\ ~gv.err =>
              /\ Len(gv.vcov.elems) = NumParams(model) * NumParams(model)
              /\ \A k \in 1..Len(gv.vcov.elems) : IsFinite(gv.vcov.elems[k])
        /\ gv.err => gv.vcov = NilSlice
        /\ (AllZero(model.exphess) \/ Singular(model)) => gv.err
        /\ (stage = "results" /\ gv.err) =>
              /\ rslt.stderr.isNil /\ rslt.zscores.isNil /\ rslt.pvalues.isNil
              /\ last # "none" => ret = NilSlice
              /\ Params(rslt) = inParams
              /\ LogLike(rslt) = inLoglike

C5_Witness ==
    /\ gv.called /\ gv.err /\ gv.vcov.isNil
    /\ NumParams(model) = 2 /\ AllZero(model.exphess)
    /\ stage = "results"
    /\ \A a \in Accessors : first[a].called /\ first[a].val = NilSlice
    /\ Params(rslt) = <<F(-2), F(-2)>>

\* C6: for an invertible expected Hessian H, GetVcov asks for the expected (not
\* the observed) Hessian and returns -(H^-1): NumParams()^2 entries whose product
\* with H is the negative identity; for H = [-7,-10,-10,-86] that is
\* [86,-10,-10,7]/502.
C6_NegatedInverseOfExpected ==
    (gv.called /\ ~Singular(model)) =>
        /\ ~gv.err /\ ~gv.vcov.isNil
        /\ Len(gv.vcov.elems) = NumParams(model) * NumParams(model)
        /\ ProductIsNegativeIdentity(gv.vcov.elems, model.exphess, NumParams(model))
        /\ model.exphess = PoissonExpHess =>
              gv.vcov.elems = <<Rat(86, 502), Rat(-10, 502), Rat(-10, 502), Rat(7, 502)>>

C6_Witness ==
    /\ gv.called /\ ~gv.err
    /\ model.exphess = PoissonExpHess
    /\ model.obshess # model.exphess
    /\ gv.vcov.elems = <<Rat(86, 502), Rat(-10, 502), Rat(-10, 502), Rat(7, 502)>>

---------------------------------------------------------------------------
(* FittedValues on a fitted model, for any argument *)

DataVals == {F(1), F(2)}

\* The sequences of distinct zero-based column positions below nc.
Positions(nc) ==
    {x \in UNION {[1..l -> 0..(nc - 1)] : l \in 1..nc} :
        \A a, b \in 1..Len(x) : a # b => x[a] # x[b]}

\* The arguments tried: none, the training data, and the training data with a
\* column less, a column more, other values, a row less, a row more.
Arguments(training) ==
    LET nc == Len(training)
        n == Len(training[1])
    IN  {NilSlice, Slice(training), Slice(<<>>),
         Slice(SubSeq(training, 1, nc - 1)),
         Slice(Append(training, training[1])),
         Slice([c \in 1..nc |-> [i \in 1..n |-> FMul(F(3), training[c][i])]]),
         Slice([c \in 1..nc |-> SubSeq(training[c], 1, n - 1)]),
         Slice([c \in 1..nc |-> Append(training[c], F(1))])}

FittedValuesCall ==
    /\ stage = "fitted"
    /\ \E d \in Arguments(model.Dataset) :
          /\ da' = d
          /\ fv' = FittedValues(rslt, d)
    /\ UNCHANGED <<stage, model, inParams, inLoglike, gv, rslt, ret, last, first,
                   dsIn, ds, tbl, fmtOut, out>>

InitFitted ==
    /\ stage = "fitted"
    /\ inLoglike = F(-9)
    /\ \E nc \in 1..MaxCols, n \in 1..MaxObs :
          \E training \in [1..nc -> [1..n -> DataVals]], xpos \in Positions(nc) :
             /\ model = [NumParams |-> Len(xpos), NumObs |-> n, Xpos |-> xpos,
                         Dataset |-> training,
                         exphess |-> <<>>, obshess |-> <<>>]
             /\ inParams \in {[k \in 1..Len(xpos) |-> F(k)],
                              [k \in 1..Len(xpos) |-> F(-2)]}
    /\ rslt = NewBaseResults(model, inLoglike, inParams,
                             XNames(NumParams(model)), NilSlice)
    /\ IdleResults /\ IdleFitted /\ IdleDataset /\ IdleTable

NextFitted == FittedValuesCall

SpecFitted == InitFitted /\ [][NextFitted]_vars

\* C7: FittedValues(da) with a da of another number of columns than the
\* training data panics and returns nothing, truncated or padded; with da nil
\* it uses the training data, so FittedValues(nil) = FittedValues(Dataset()).
C7_FittedValuesColumns ==
    stage = "fitted" =>
        /\ (fv.status # "none" /\ ~da.isNil /\ Len(da.elems) # Len(model.Dataset)) =>
              /\ fv.status = "panic: incorrect number of columns"
              /\ fv.val = <<>>
        /\ (fv.status # "none" /\ da.isNil) =>
              /\ fv = FittedValues(rslt, Slice(model.Dataset))
              /\ fv.status = "ok" /\ Len(fv.val) = model.NumObs
        /\ FittedValues(rslt, NilSlice) = FittedValues(rslt, Slice(model.Dataset))

\* A column too many, holding as many rows as the training data.
C7_Witness ==
    /\ stage = "fitted" /\ fv.status = "panic: incorrect number of columns"
    /\ ~da.isNil /\ Len(da.elems) = Len(model.Dataset) + 1
    /\ model.Xpos = <<1, 0>> /\ model.NumObs = 2

---------------------------------------------------------------------------
(* One call of a Dataset constructor, for any arguments *)

VarNames == {"y", "x1", "x2"}

SeqsUpTo(S, n) == UNION {[1..l -> S] : l \in 0..n}

\* A column of l rows.
Column(l) == [i \in 1..l |-> F(i)]

Datas == SeqsUpTo({Column(l) : l \in 0..MaxObs}, MaxCols)

NewDatasetCall ==
    /\ stage = "dataset" /\ ds.status = "none"
    /\ \E data \in Datas, varnames \in SeqsUpTo(VarNames, MaxCols),
          yname \in VarNames, xnames \in SeqsUpTo(VarNames, MaxCols) :
          /\ dsIn' = BasicData(data, varnames, yname, xnames)
          /\ ds' = NewDataset(data, varnames, yname, xnames)
    /\ UNCHANGED <<stage, model, inParams, inLoglike, gv, rslt, ret, last, first,
                   da, fv, tbl, fmtOut, out>>

FromColumnsCall ==
    /\ stage = "dataset" /\ ds.status = "none"
    /\ \E data \in Datas, names \in SeqsUpTo(VarNames, MaxCols),
          yname \in VarNames, xnames \in SeqsUpTo(VarNames, MaxCols) :
          /\ dsIn' = BasicData(data, names, yname, xnames)
          /\ ds' = FromColumns([Names |-> names, Data |-> data], yname, xnames)
    /\ UNCHANGED <<stage, model, inParams, inLoglike, gv, rslt, ret, last, first,
                   da, fv, tbl, fmtOut, out>>

InitDataset ==
    /\ stage = "dataset"
    /\ model = Fitter(0, <<>>, <<>>) /\ inParams = <<>> /\ inLoglike = F(0)
    /\ rslt = NoResults
    /\ IdleResults /\ IdleFitted /\ IdleDataset /\ IdleTable

NextDataset == NewDatasetCall \/ FromColumnsCall

SpecDataset == InitDataset /\ [][NextDataset]_vars

Range(f) == {f[i] : i \in DOMAIN f}

\* The invariant of a Dataset.
ValidDataset(d) ==
    /\ d.yname \in Range(d.varnames)
    /\ Range(d.xnames) \subseteq Range(d.varnames)
    /\ Len(d.data) = Len(d.varnames)
    /\ \A a, b \in 1..Len(d.data) : Len(d.data[a]) = Len(d.data[b])

\* C9: every Dataset a constructor returns has its response and predictor
\* names among its variable names, as many columns as names, and columns of
\* one length; arguments that break this are refused by the constructor.
C9_ConstructedDatasetIsValid ==
    (stage = "dataset" /\ ds.status # "none") =>
        /\ ds.status = "ok" => ValidDataset(ds.val)
        /\ ~ValidDataset(dsIn) => ds.status = "panic"

---------------------------------------------------------------------------
(* SummaryTable.String on any table *)

Titles == {"", "Title", "Regression results"}
Headers == {"x", "coef"}
Cells == {"1", "100", "-0.12345"}
TopEntries == {"n", "Model: GLM"}
MaxRows == 2

StringCall ==
    /\ stage = "table"
    /\ LET o == String(tbl, fmtOut)
       IN  /\ tbl' = o.tbl
           /\ out' = [called |-> TRUE, wx |-> o.wx, lines |-> o.lines]
    /\ UNCHANGED <<stage, model, inParams, inLoglike, gv, rslt, ret, last, first,
                   da, fv, dsIn, ds, fmtOut>>

InitTable ==
    /\ stage = "table"
    /\ model = Fitter(0, <<>>, <<>>) /\ inParams = <<>> /\ inLoglike = F(0)
    /\ rslt = NoResults
    /\ IdleResults /\ IdleFitted /\ IdleDataset
    /\ \E nc \in 1..MaxCols, nr \in 1..MaxRows, nt \in 1..2 :
          /\ fmtOut \in [1..nc -> [1..nr -> Cells]]
          /\ \E title \in Titles, names \in [1..nc -> Headers],
                tp \in [1..nt -> TopEntries], msg \in {<<>>, <<"converged">>} :
                tbl = [Title |-> title, ColNames |-> names, Top |-> tp,
                       Msg |-> msg, tw |-> 0]
    /\ out = NoOut

NextTable == StringCall

SpecTable == InitTable /\ [][NextTable]_vars

\* The widths the contract of the table asks for.
ColumnWidth(j) == MaxLen(fmtOut[j], Len(tbl.ColNames[j]))

\* C10: String() gives each column the width of the longer of its header and
\* its widest formatted value, values of differing lengths included, and the
\* table the largest of the sum of those widths, the length of the title and
\* 10 + 2 * the width of a metadata entry; so the table is never narrower than
\* its title nor than the widest header or cell of a column.
C10_WidthsFromContent ==
    (stage = "table" /\ out.called) =>
        /\ \A j \in 1..Len(fmtOut) : out.wx[j] = ColumnWidth(j)
        /\ tbl.tw = Max(Max(SumSeq([j \in 1..Len(fmtOut) |-> ColumnWidth(j)]),
                            Len(tbl.Title)),
                        10 + 2 * MaxLen(tbl.Top, 0))
        /\ tbl.tw >= Len(tbl.Title)
        /\ \A j \in 1..Len(fmtOut) : tbl.tw >= ColumnWidth(j)

=============================================================================
